---- MODULE Spec2Model ----
(***************************************************************************)
(* Frame-synchronized annotation pipeline of Instilplay_viz:               *)
(*   utils/video_processor.py            (codec negotiation, COM pipeline) *)
(*   utils/head_video_processor.py       (head pipeline)                   *)
(*   utils/hip_shoulder_video_processor.py                                 *)
(*   utils/kinematics_video_processor.py                                   *)
(*   utils/fbr_video_processor.py                                          *)
(*   utils/pose_drawing.py               (skeleton renderer)               *)
(*                                                                         *)
(* Two specifications:                                                     *)
(*   SpecCodec  detect_available_codec applied to every combination of     *)
(*              per-candidate probe outcomes;                              *)
(*   Spec       one annotation run of any of the five pipelines, from the  *)
(*              call to the return (or the exception leaving the call).    *)
(***************************************************************************)
EXTENDS Integers, Sequences, FiniteSets, TLC

\* ------------------------------------------------------------------ bounds
\* Most frames the decoder delivers in one run.
MaxFrames == 12
\* Longest metric time series of an analysis record.
MaxSeries == 11
\* Largest key-frame marker of an analysis record.
MaxMark == 1

\* ------------------------------------------------------- program constants
\* head_video_processor.py:51  heatmap only when len(head_x_series) > 10
HeatmapMinLen == 10
\* video_processor.py:205 / head_video_processor.py:77
ComTrailLength == 15
HeadTrailLength == 20
\* MediaPipe indices the overlay renderers read
L_SHOULDER == 11
R_SHOULDER == 12
L_HIP == 23
R_HIP == 24
L_ANKLE == 27
R_ANKLE == 28

\* Python's None, where a string is expected and where a path is expected
None == "None"
NoPath == <<>>

Max(S) == CHOOSE m \in S : \A x \in S : x <= m

\* -------------------------------------------------------------------- paths
\* A path is a sequence of atoms; "." and "/" are atoms of their own, so
\* that str.rsplit('.', 1) and str.endswith act on it as on the string.
EXT_WEBM == <<".", "webm">>
EXT_AVI == <<".", "avi">>
EXT_MP4 == <<".", "mp4">>

\* Output-path hints the dashboard pages pass: a temporary file name with a
\* suffix ('.mp4' or '.webm', also '.avi'), in a directory that may contain
\* a dot.
Hints ==
    { <<"out", ".", "webm">>,
      <<"out", ".", "avi">>,
      <<"t", ".", "d", "/", "out", ".", "mp4">> }

DotPositions(p) == { i \in 1..Len(p) : p[i] = "." }

\* Mutant of rsplit_dot: splits at the first dot (str.split('.', 1)[0]).
split_first_dot(p) ==
    IF DotPositions(p) = {} THEN p
    ELSE SubSeq(p, 1, (CHOOSE i \in DotPositions(p) :
                          \A j \in DotPositions(p) : i <= j) - 1)

\* output_path.rsplit('.', 1)[0]
rsplit_dot(p) ==
    IF DotPositions(p) = {} THEN p
    ELSE SubSeq(p, 1, Max(DotPositions(p)) - 1)

\* str.endswith(suffix)
endswith(p, suffix) ==
    /\ Len(p) >= Len(suffix)
    /\ SubSeq(p, Len(p) - Len(suffix) + 1, Len(p)) = suffix

\* The extension of a path: the part from the last dot of its last
\* component on (os.path.splitext), <<>> when there is none.
LastSlash(p) == Max({0} \cup { i \in 1..Len(p) : p[i] = "/" })
ExtOf(p) ==
    LET dots == { i \in DotPositions(p) : i > LastSlash(p) }
    IN  IF dots = {} THEN <<>> ELSE SubSeq(p, Max(dots), Len(p))
StemOf(p) == SubSeq(p, 1, Len(p) - Len(ExtOf(p)))

\* ------------------------------------------------------- codec negotiation
\* codecs_to_try, in priority order
codecs_to_try ==
    << [fourcc |-> "VP80", ext |-> EXT_WEBM, name |-> "VP8"],
       [fourcc |-> "VP90", ext |-> EXT_WEBM, name |-> "VP9"],
       [fourcc |-> "MJPG", ext |-> EXT_AVI,  name |-> "MJPEG"],
       [fourcc |-> "mp4v", ext |-> EXT_MP4,  name |-> "MPEG4"],
       [fourcc |-> "avc1", ext |-> EXT_MP4,  name |-> "H264"] >>

Candidates == 1..Len(codecs_to_try)

\* What the environment does with one candidate's probe:
\*   raises   cv2.VideoWriter(...) or writer.write raises
\*   opened   writer.isOpened()
\*   exists   os.path.exists(test_path) after the probe (the temporary file
\*            is created by NamedTemporaryFile(delete=False) beforehand)
\*   size     os.path.getsize(test_path), 0 or 1 (= non-empty)
ProbeOutcomes ==
    { [raises |-> TRUE,  opened |-> FALSE, exists |-> TRUE,  size |-> 0],
      [raises |-> FALSE, opened |-> FALSE, exists |-> TRUE,  size |-> 0],
      [raises |-> FALSE, opened |-> TRUE,  exists |-> FALSE, size |-> 0],
      [raises |-> FALSE, opened |-> TRUE,  exists |-> TRUE,  size |-> 0],
      [raises |-> FALSE, opened |-> TRUE,  exists |-> TRUE,  size |-> 1] }

\* Mutant of probe_candidate: trusts isOpened() alone.
probe_candidate_open_only(o) ==
    [accepted |-> ~o.raises /\ o.opened, file_left |-> FALSE]

\* Mutant of probe_candidate: a rejected candidate's test file is kept.
probe_candidate_keep_file(o) ==
    IF ~o.raises /\ o.opened /\ o.exists /\ o.size > 0
    THEN [accepted |-> TRUE, file_left |-> FALSE]
    ELSE [accepted |-> FALSE, file_left |-> o.exists]

\* Body of the for loop of detect_available_codec for one candidate:
\* accepted = the function returns this candidate; file_left = the test file
\* still exists when the iteration is over.
probe_candidate(o) ==
    IF o.raises
    THEN \* except Exception: remove if exists; continue
         [accepted |-> FALSE, file_left |-> FALSE]
    ELSE IF o.opened /\ o.exists /\ o.size > 0
    THEN \* os.remove(test_path); return fourcc, ext, name
         [accepted |-> TRUE, file_left |-> FALSE]
    ELSE \* if os.path.exists(test_path): os.remove(test_path)
         [accepted |-> FALSE, file_left |-> FALSE]

\* What detect_available_codec returns, with what it did: sel is the index
\* of the returned candidate (0 for (None, None, None)), fourcc, ext, name
\* the returned tuple, probes the candidates probed, in order, files the
\* candidates whose test file still exists at the return.
Detected(sel, probes, files) ==
    [sel |-> sel,
     fourcc |-> IF sel = 0 THEN None ELSE codecs_to_try[sel].fourcc,
     ext |-> IF sel = 0 THEN NoPath ELSE codecs_to_try[sel].ext,
     name |-> IF sel = 0 THEN None ELSE codecs_to_try[sel].name,
     probes |-> probes, files |-> files]

\* The verification of the negotiation, as a fact about the environment:
\* the candidate's writer opens and its test file exists and is non-empty.
Verifies(o) == ~o.raises /\ o.opened /\ o.exists /\ o.size > 0

\* for fourcc, ext, name in codecs_to_try, from candidate i on
RECURSIVE detect_from(_, _, _, _)
detect_from(env, i, probes, files) ==
    IF i > Len(codecs_to_try)
    THEN Detected(0, probes, files)
    ELSE LET r == probe_candidate(env[i])
             f == IF r.file_left THEN files \cup {i} ELSE files
         IN  IF r.accepted
             THEN Detected(i, Append(probes, i), f)
             ELSE detect_from(env, i + 1, Append(probes, i), f)

\* Mutant of detect_available_codec: keeps probing after a success and
\* returns the last candidate that works.
RECURSIVE detect_last_from(_, _, _, _)
detect_last_from(env, i, probes, sel) ==
    IF i > Len(codecs_to_try)
    THEN Detected(sel, probes, {})
    ELSE detect_last_from(env, i + 1, Append(probes, i),
                          IF probe_candidate(env[i]).accepted THEN i ELSE sel)
detect_last(env) == detect_last_from(env, 1, <<>>, 0)

\* detected before detect_available_codec() has been called
NotDetected ==
    [sel |-> -1, fourcc |-> None, ext |-> NoPath, name |-> None,
     probes |-> <<>>, files |-> {}]

\* detect_available_codec()
detect_available_codec(env) == detect_from(env, 1, <<>>, {})

VARIABLES
    \* --- SpecCodec
    probe_env,      \* Candidates -> ProbeOutcomes: what each probe would do
    detected,       \* result record of detect_available_codec
    \* --- Spec: arguments of the run
    pipeline,       \* which process_video_with_* function runs
    output_path,    \* the caller's output-path hint
    series_len,     \* len of the metric series (head: head_x_smooth)
    series_len_y,   \* head: len(head_y_smooth); otherwise = series_len
    downswing_start, downswing_end,  \* hip-shoulder key frames
    video,          \* what the decoder reports of the input video
    metadata,       \* the analysis record's metadata argument
    \* --- Spec: locals of the run
    pc,             \* position in the function
    cap,            \* decoder handle: "unset", "open", "closed", "released"
    props,          \* width, height, fps read from the decoder
    out_props,      \* width, height, fps the output encoder was built with
    decoded,        \* frames cap.read() has delivered
    handed,         \* decode positions of the frames passed to out.write
    out,            \* encoder handle: "unset", "open", "closed", "released"
    open_attempts,  \* cv2.VideoWriter(...) calls made for the output
    codec,          \* negotiated candidate index, 0 = none
    probed,         \* candidates probed by the negotiation of this run
    probes_all_fail, \* no candidate passes the verification in this run
    out_codec,      \* fourcc the encoder was opened with, or None
    out_path,       \* path the encoder was opened at, or None
    final_output_path, \* resolved output path, or None
    frame_idx,
    trail,          \* com_trail / head_trail, as the frame indices pushed
    heatmap,        \* head: heatmap_overlay is not None
    last,           \* what the last loop iteration did to its frame
    encode_error,   \* an out.write call failed in this run
    raise_cause,    \* which statement raised, or None
    ffmpeg,         \* outcome of the ffmpeg run of convert_to_web_format
    files,          \* output files of this run that exist
    result,         \* value returned to the caller, or None
    \* --- SpecPhase: the phase of each frame under one phase scheme
    scheme,         \* which renderer's phase test is applied
    key_frames,     \* the scheme's key-frame markers
    ph_frame,       \* index of the last frame classified, -1 before
    phase,          \* the phase that frame got
    \* --- SpecPoseMap: the landmark index
    pose_data,      \* the sparse per-frame list
    pose_map        \* the index built from it

codec_vars == <<probe_env, detected>>
arg_vars == <<pipeline, output_path, series_len, series_len_y,
              downswing_start, downswing_end, video, metadata>>
aux_vars == <<scheme, key_frames, ph_frame, phase, pose_data, pose_map>>
run_vars == <<pc, cap, props, out_props, decoded, handed, out, open_attempts, codec, probed, probes_all_fail,
              out_codec, out_path,
              final_output_path, frame_idx, trail, heatmap, last,
              encode_error, raise_cause, ffmpeg, files, result>>
vars == <<probe_env, detected, pipeline, output_path, series_len,
          series_len_y, downswing_start, downswing_end, video, metadata,
          scheme, key_frames, ph_frame, phase, pose_data, pose_map,
          props, out_props, decoded, handed, pc, cap, out,
          open_attempts, codec, probed, probes_all_fail, out_codec, out_path,
          final_output_path, frame_idx, trail, heatmap, last, encode_error,
          raise_cause, ffmpeg, files, result>>


\* ------------------------------------------------------------ environment
Pipelines == {"com", "head", "hip_shoulder", "kinematics", "fbr"}

\* A frame's entry of pose_map: n landmarks (0 = the frame has no entry;
\* entries with an empty list are never in pose_map), well-formed or with
\* a landmark lacking its 'x'/'y' key.
LandmarkSets ==
    { [n |-> 0,  ok |-> TRUE],
      [n |-> 12, ok |-> TRUE],
      [n |-> 25, ok |-> TRUE],
      [n |-> 33, ok |-> TRUE],
      [n |-> 33, ok |-> FALSE] }

\* What out.write(frame) does on an opened encoder: writes the frame,
\* raises cv2.error, or drops the frame without telling (the backend logs
\* the error, the Python call returns None all the same).
WriteOutcomes == {"ok", "raise", "silent"}

\* subprocess.run(['ffmpeg', ...]) in convert_to_web_format
FfmpegOutcomes == {"ok", "nonzero", "no_output", "timeout", "not_found"}

NoFrame ==
    [idx |-> -1, pos |-> -1, lm |-> 0, ok |-> TRUE, layers |-> {},
     segments |-> <<>>, connections |-> {}]

\* What cap.get(cv2.CAP_PROP_FRAME_WIDTH / _HEIGHT / _FPS) answers for an
\* input video: floats, kept here in hundredths (29.97 fps is 2997).
VideoProps ==
    { [width |-> 64000,  height |-> 48000,  fps |-> 3000],
      [width |-> 192000, height |-> 108000, fps |-> 2997] }

\* The metadata argument: the record the analysis made of the same or of
\* another video (width, height in pixels, fps in hundredths).
Metadatas ==
    { [width |-> 640,  height |-> 480, fps |-> 3000],
      [width |-> 1280, height |-> 720, fps |-> 2400] }

SampleVideo == [width |-> 64000, height |-> 48000, fps |-> 3000]
SampleMetadata == [width |-> 1280, height |-> 720, fps |-> 2400]

NoProps == [width |-> 0, height |-> 0, fps |-> 0]

\* int(x) of a float kept in hundredths
int(x) == x \div 100

\* Mutant of decoder_props: the properties are taken from the metadata.
decoder_props_from_metadata(v, md) ==
    [width |-> md.width, height |-> md.height, fps |-> md.fps]

\* width = int(cap.get(cv2.CAP_PROP_FRAME_WIDTH)); height likewise;
\* fps = cap.get(cv2.CAP_PROP_FPS)
decoder_props(v, md) ==
    [width |-> int(v.width), height |-> int(v.height), fps |-> v.fps]

\* ------------------------------------------------------------------- Init
InitRunVars ==
    /\ pc = "start"
    /\ cap = "unset"
    /\ props = NoProps
    /\ out_props = NoProps
    /\ decoded = 0
    /\ handed = <<>>
    /\ out = "unset"
    /\ open_attempts = 0
    /\ codec = 0
    /\ probed = 0
    /\ probes_all_fail = FALSE
    /\ out_codec = None
    /\ out_path = NoPath
    /\ final_output_path = NoPath
    /\ frame_idx = 0
    /\ trail = <<>>
    /\ heatmap = FALSE
    /\ last = NoFrame
    /\ encode_error = FALSE
    /\ raise_cause = None
    /\ ffmpeg = None
    /\ files = {}
    /\ result = NoPath

\* pose_map before the statement that builds it has run
NotBuilt == [k \in {-1} |-> -1]

\* The variables of the phase and landmark-index specifications, at rest.
InitAuxVars ==
    /\ scheme = None
    /\ key_frames = <<>>
    /\ ph_frame = -1
    /\ phase = None
    /\ pose_data = <<>>
    /\ pose_map = NotBuilt

\* State at the call of process_video_with_*: the arguments are chosen, no
\* local exists yet.
Init ==
    /\ probe_env = <<>>
    /\ detected = NotDetected
    /\ pipeline \in Pipelines
    /\ output_path \in Hints
    /\ series_len \in (IF pipeline = "kinematics" THEN {0} ELSE 0..MaxSeries)
    /\ series_len_y \in (IF pipeline = "head" THEN 0..MaxSeries ELSE {series_len})
    /\ downswing_start \in (IF pipeline = "hip_shoulder" THEN 0..MaxMark ELSE {0})
    /\ downswing_end \in (IF pipeline = "hip_shoulder" THEN 0..MaxMark ELSE {0})
    /\ video = SampleVideo
    /\ metadata = SampleMetadata
    /\ InitRunVars
    /\ InitAuxVars

\* ---------------------------------------------------------- open decoder
\* Mutant of OpenCapture: the run goes on without the isOpened() test.
OpenCapture_unchecked ==
    /\ pc = "start"
    /\ \E opened \in BOOLEAN :
          /\ cap' = (IF opened THEN "open" ELSE "closed")
          /\ props' = (IF opened THEN decoder_props(video, metadata)
                       ELSE NoProps)
    /\ pc' = "open_writer"
    /\ UNCHANGED <<result, out_props, decoded, handed, out, open_attempts,
                   codec, probed, probes_all_fail, out_codec, out_path,
                   final_output_path, frame_idx, trail, heatmap, last,
                   encode_error, raise_cause, ffmpeg, files>>
    /\ UNCHANGED <<codec_vars, arg_vars, aux_vars>>

\* cap = cv2.VideoCapture(video_path); if not cap.isOpened(): return None
OpenCapture ==
    /\ pc = "start"
    /\ \E opened \in BOOLEAN :
          IF opened
          THEN /\ cap' = "open"
               /\ props' = decoder_props(video, metadata)
               /\ pc' = "open_writer"
               /\ UNCHANGED result
          ELSE /\ cap' = "closed"
               /\ pc' = "returned"
               /\ result' = NoPath
               /\ UNCHANGED props
    /\ UNCHANGED <<out_props, decoded, handed, out, open_attempts, codec, probed, probes_all_fail, out_codec, out_path,
                   final_output_path, frame_idx, trail, heatmap, last,
                   encode_error, raise_cause, ffmpeg, files>>
    /\ UNCHANGED <<codec_vars, arg_vars, aux_vars>>

\* ---------------------------------------------------------- open encoder
\* Mutant of create_video_writer: with no codec negotiated it falls back to
\* mp4v at the caller's path instead of giving up.
create_video_writer_fallback(path, env, opens) ==
    LET d == detect_available_codec(env)
        final == rsplit_dot(path) \o d.ext
    IN  IF d.sel = 0
        THEN [out |-> IF opens THEN "open" ELSE None,
              final_output_path |-> IF opens THEN path ELSE NoPath,
              codec |-> 0, probed |-> Len(d.probes), attempts |-> 1,
              opened_at |-> path, fourcc |-> "mp4v"]
        ELSE [out |-> IF opens THEN "open" ELSE None,
              final_output_path |-> IF opens THEN final ELSE NoPath,
              codec |-> d.sel, probed |-> Len(d.probes), attempts |-> 1,
              opened_at |-> final, fourcc |-> d.fourcc]

\* create_video_writer(output_path, width, height, fps): env is what the
\* codec probes do, opens whether cv2.VideoWriter(final_output_path, ...)
\* opens.  out = None and final_output_path = None model (None, None).
create_video_writer(path, env, opens) ==
    LET d == detect_available_codec(env)
        base_path == rsplit_dot(path)
        final == base_path \o d.ext
    IN  IF d.sel = 0
        THEN [out |-> None, final_output_path |-> NoPath, codec |-> 0,
              probed |-> Len(d.probes), attempts |-> 0,
              opened_at |-> NoPath, fourcc |-> None]
        ELSE [out |-> IF opens THEN "open" ELSE None,
              final_output_path |-> IF opens THEN final ELSE NoPath,
              codec |-> d.sel, probed |-> Len(d.probes), attempts |-> 1,
              opened_at |-> final, fourcc |-> d.fourcc]

\* process_video_with_com_overlay, lines 187-193
ComCreateWriter ==
    /\ pc = "open_writer"
    /\ pipeline = "com"
    /\ \E env \in [Candidates -> ProbeOutcomes], opens \in BOOLEAN :
          LET w == create_video_writer(output_path, env, opens)
          IN  /\ codec' = w.codec
              /\ probed' = w.probed
              /\ probes_all_fail' = (\A i \in Candidates : ~Verifies(env[i]))
              /\ open_attempts' = w.attempts
              /\ out_path' = w.opened_at
              /\ out_codec' = w.fourcc
              /\ out_props' = (IF w.attempts > 0 THEN props ELSE out_props)
              /\ IF w.out = None
                 THEN \* cap.release(); return None
                      /\ out' = (IF w.attempts = 0 THEN "unset" ELSE "closed")
                      /\ cap' = "released"
                      /\ pc' = "returned"
                      /\ result' = NoPath
                      /\ UNCHANGED <<final_output_path, files>>
                 ELSE /\ out' = w.out
                      /\ final_output_path' = w.final_output_path
                      /\ files' = files \cup {w.opened_at}
                      /\ pc' = "extract"
                      /\ UNCHANGED <<cap, result>>
    /\ UNCHANGED <<props, decoded, handed, frame_idx, trail, heatmap, last,
                   encode_error, raise_cause, ffmpeg>>
    /\ UNCHANGED <<codec_vars, arg_vars, aux_vars>>

\* out = cv2.VideoWriter(output_path, mp4v, ...); if not out.isOpened():
\* the same call once more.  first, second: whether each call opens.
\* opened is what the last out.isOpened() answers.
open_with_retry(first, second) ==
    IF first
    THEN [out |-> "open", attempts |-> 1, opened |-> TRUE]
    ELSE [out |-> IF second THEN "open" ELSE "closed", attempts |-> 2,
          opened |-> second]

\* The encoder-opening part shared by the head and hip-shoulder runs: the
\* encoder is opened at the caller's output_path itself.
OpenAtHint(w) ==
    /\ open_attempts' = w.attempts
    /\ out_path' = output_path
    /\ out_codec' = "mp4v"
    /\ out_props' = props
    /\ IF w.opened
       THEN /\ out' = w.out
            /\ final_output_path' = output_path
            /\ files' = files \cup {output_path}
            /\ pc' = "extract"
            /\ UNCHANGED <<cap, result>>
       ELSE \* cap.release(); return None
            /\ out' = "closed"
            /\ cap' = "released"
            /\ pc' = "returned"
            /\ result' = NoPath
            /\ UNCHANGED <<final_output_path, files>>
    /\ UNCHANGED <<props, decoded, handed, codec, probed, probes_all_fail,
                   frame_idx, trail, heatmap, last,
                   encode_error, raise_cause, ffmpeg>>
    /\ UNCHANGED <<codec_vars, arg_vars, aux_vars>>

\* process_video_with_head_tracking, lines 31-41
HeadOpenWriter ==
    /\ pc = "open_writer"
    /\ pipeline = "head"
    /\ \E first \in BOOLEAN, second \in BOOLEAN :
          OpenAtHint(open_with_retry(first, second))

\* process_video_with_hip_shoulder, lines 98-108
HipShoulderOpenWriter ==
    /\ pc = "open_writer"
    /\ pipeline = "hip_shoulder"
    /\ \E first \in BOOLEAN, second \in BOOLEAN :
          OpenAtHint(open_with_retry(first, second))

\* process_video_with_kinematics, lines 131-137: one attempt only
KinematicsOpenWriter ==
    /\ pc = "open_writer"
    /\ pipeline = "kinematics"
    /\ \E opens \in BOOLEAN :
          OpenAtHint([out |-> IF opens THEN "open" ELSE "closed",
                      attempts |-> 1, opened |-> opens])

\* process_video_with_fbr, lines 102-103: the path is forced to '.avi'
fbr_output_path(path) ==
    IF ~endswith(path, EXT_AVI) THEN rsplit_dot(path) \o EXT_AVI ELSE path

\* process_video_with_fbr, line 108: the test made after the encoder is
\* constructed, TRUE when the run goes on.
fbr_writer_check(path, opened) == ~(~endswith(path, EXT_AVI))

\* process_video_with_fbr, lines 98-110
FbrOpenWriter ==
    /\ pc = "open_writer"
    /\ pipeline = "fbr"
    /\ \E opens \in BOOLEAN :
          LET path == fbr_output_path(output_path)
          IN  /\ open_attempts' = 1
              /\ out_path' = path
              /\ out_codec' = "MJPG"
              /\ out_props' = props
              /\ out' = (IF opens THEN "open" ELSE "closed")
              /\ files' = (IF opens THEN files \cup {path} ELSE files)
              /\ IF fbr_writer_check(path, opens)
                 THEN /\ final_output_path' = path
                      /\ pc' = "extract"
                      /\ UNCHANGED <<cap, result>>
                 ELSE \* cap.release(); return None
                      /\ cap' = "released"
                      /\ pc' = "returned"
                      /\ result' = NoPath
                      /\ UNCHANGED final_output_path
    /\ UNCHANGED <<props, decoded, handed, codec, probed, probes_all_fail,
                   frame_idx, trail, heatmap, last,
                   encode_error, raise_cause, ffmpeg>>
    /\ UNCHANGED <<codec_vars, arg_vars, aux_vars>>

\* ----------------------------------------------------------- extract data
\* head_video_processor.py:51  heatmap_overlay is built
heatmap_wanted(lx, ly) == lx > 0 /\ ly > 0 /\ lx > HeatmapMinLen

\* The statements between the encoder check and the loop: the series and
\* key frames are read from the record, the head run builds its heatmap
\* (np.histogram2d raises ValueError when x and y differ in length), the
\* pose map is built, frame_idx = 0 and the trail is empty.
ExtractData ==
    /\ pc = "extract"
    /\ IF pipeline = "head" /\ heatmap_wanted(series_len, series_len_y)
       THEN IF series_len # series_len_y
            THEN /\ pc' = "raised"
                 /\ raise_cause' = "heatmap"
                 /\ UNCHANGED heatmap
            ELSE /\ heatmap' = TRUE
                 /\ pc' = "loop"
                 /\ UNCHANGED raise_cause
       ELSE /\ pc' = "loop"
            /\ UNCHANGED <<heatmap, raise_cause>>
    /\ frame_idx' = 0
    /\ trail' = <<>>
    /\ UNCHANGED <<props, out_props, decoded, handed>>
    /\ UNCHANGED <<cap, out, open_attempts, codec, probed, probes_all_fail, out_codec,
                   out_path, final_output_path, last, encode_error, ffmpeg,
                   files, result>>
    /\ UNCHANGED <<codec_vars, arg_vars, aux_vars>>

\* ------------------------------------------------------- per-frame drawing
\* Layers a loop iteration puts on its frame:
\*   "skeleton"   draw_pose_on_frame
\*   "overlay"    the metric renderer's geometry and text for this frame
\*   "heatmap"    head: the density underlay blended into the frame
\*   "downswing"  hip-shoulder: the DOWNSWING phase label
\* A drawing result is [layers, trail, raised]: raised names the statement
\* that raised (None when none did).

\* Mutant of push: a full trail drops the value just appended (pop() in
\* place of pop(0)).
push_drops_newest(tr, v, capacity) ==
    LET t == Append(tr, v)
    IN  IF Len(t) > capacity THEN SubSeq(t, 1, Len(t) - 1) ELSE t

\* com_trail.append(v); if len(com_trail) > trail_length: com_trail.pop(0)
push(tr, v, capacity) ==
    LET t == Append(tr, v)
    IN  IF Len(t) > capacity THEN Tail(t) ELSE t

\* Mutant of skeleton_layer: draw_pose_on_frame is called for every frame.
skeleton_layer_unguarded(lm) == {"skeleton"}

\* landmarks = pose_map.get(frame_idx); if landmarks: draw_pose_on_frame
skeleton_layer(lm) == IF lm.n > 0 THEN {"skeleton"} ELSE {}

\* draw_pose_on_frame reads lm['x'], lm['y'] of every landmark: KeyError
\* on a malformed one.
pose_raises(lm) == lm.n > 0 /\ ~lm.ok

\* series[frame_idx]: "IndexError" when frame_idx is not an index of it
series_at(idx, len) == IF idx < len THEN "value" ELSE "IndexError"

\* Mutant of com_covered: the length test is off by one.
com_covered_off_by_one(idx, len) == idx <= len

\* video_processor.py:220  if frame_idx < len(com_x_series)
com_covered(idx, len) == idx < len

\* Mutant of com_frame: the COM overlay is drawn only under the landmarks.
com_frame_under_landmarks(idx, lm, tr, len) ==
    IF pose_raises(lm)
    THEN [layers |-> {}, trail |-> tr, raised |-> "draw"]
    ELSE IF lm.n > 0 /\ com_covered(idx, len)
    THEN [layers |-> skeleton_layer(lm) \cup {"overlay"},
          trail |-> push(tr, idx, ComTrailLength), raised |-> None]
    ELSE [layers |-> skeleton_layer(lm), trail |-> tr, raised |-> None]

\* video_processor.py:214-227, the drawing of one frame of the COM run
com_frame(idx, lm, tr, len) ==
    IF pose_raises(lm)
    THEN [layers |-> {}, trail |-> tr, raised |-> "draw"]
    ELSE IF com_covered(idx, len)
    THEN IF series_at(idx, len) = "IndexError"
         THEN [layers |-> skeleton_layer(lm), trail |-> tr,
               raised |-> "index"]
         ELSE [layers |-> skeleton_layer(lm) \cup {"overlay"},
               trail |-> push(tr, idx, ComTrailLength), raised |-> None]
    ELSE [layers |-> skeleton_layer(lm), trail |-> tr, raised |-> None]

\* head_video_processor.py:94
head_covered(idx, lx, ly) == idx < lx /\ idx < ly

\* head_video_processor.py:84-107
head_frame(idx, lm, tr, lx, ly, hm) ==
    LET under == skeleton_layer(lm) \cup (IF hm THEN {"heatmap"} ELSE {})
    IN  IF pose_raises(lm)
        THEN [layers |-> {}, trail |-> tr, raised |-> "draw"]
        ELSE IF head_covered(idx, lx, ly)
        THEN IF "IndexError" \in {series_at(idx, lx), series_at(idx, ly)}
             THEN [layers |-> under, trail |-> tr, raised |-> "index"]
             ELSE [layers |-> under \cup {"overlay"},
                   trail |-> push(tr, idx, HeadTrailLength),
                   raised |-> None]
        ELSE [layers |-> under, trail |-> tr, raised |-> None]

\* draw_hip_shoulder_lines / draw_kinematics_overlay return the frame
\* unchanged unless len(landmarks) > max(L_SHOULDER, R_SHOULDER, L_HIP, R_HIP)
has_hips_and_shoulders(lm) ==
    ~(lm.n <= Max({L_SHOULDER, R_SHOULDER, L_HIP, R_HIP}))

\* draw_fbr_overlay returns the frame unchanged unless
\* len(landmarks) > max(L_ANKLE, R_ANKLE)
has_ankles(lm) == ~(lm.n <= Max({L_ANKLE, R_ANKLE}))

\* hip_shoulder_video_processor.py:139
in_downswing(idx, ds, de) == ds <= idx /\ idx <= de

\* Mutant of hip_shoulder_frame: the DOWNSWING label is put under
\* "if landmarks:" with the rest of the drawing.
hip_shoulder_frame_label_under_landmarks(idx, lm, len, ds, de) ==
    LET label == IF in_downswing(idx, ds, de) THEN {"downswing"} ELSE {}
    IN  IF pose_raises(lm)
        THEN [layers |-> {}, trail |-> <<>>, raised |-> "draw"]
        ELSE IF lm.n > 0
        THEN [layers |-> skeleton_layer(lm) \cup label \cup
                         (IF idx < len /\ has_hips_and_shoulders(lm)
                          THEN {"overlay"} ELSE {}),
              trail |-> <<>>, raised |-> None]
        ELSE [layers |-> {}, trail |-> <<>>, raised |-> None]

\* hip_shoulder_video_processor.py:127-141
hip_shoulder_frame(idx, lm, len, ds, de) ==
    LET label == IF in_downswing(idx, ds, de) THEN {"downswing"} ELSE {}
    IN  IF pose_raises(lm)
        THEN [layers |-> {}, trail |-> <<>>, raised |-> "draw"]
        ELSE IF lm.n > 0 /\ idx < len
        THEN IF series_at(idx, len) = "IndexError"
             THEN [layers |-> skeleton_layer(lm), trail |-> <<>>,
                   raised |-> "index"]
             ELSE [layers |-> skeleton_layer(lm) \cup label \cup
                              (IF has_hips_and_shoulders(lm)
                               THEN {"overlay"} ELSE {}),
                   trail |-> <<>>, raised |-> None]
        ELSE [layers |-> skeleton_layer(lm) \cup label, trail |-> <<>>,
              raised |-> None]

\* kinematics_video_processor.py:155-162
kinematics_frame(idx, lm) ==
    IF pose_raises(lm)
    THEN [layers |-> {}, trail |-> <<>>, raised |-> "draw"]
    ELSE IF lm.n > 0 /\ has_hips_and_shoulders(lm)
    THEN [layers |-> skeleton_layer(lm) \cup {"overlay"}, trail |-> <<>>,
          raised |-> None]
    ELSE [layers |-> skeleton_layer(lm), trail |-> <<>>, raised |-> None]

\* fbr_video_processor.py:127-136
fbr_frame(idx, lm, len) ==
    IF pose_raises(lm)
    THEN [layers |-> {}, trail |-> <<>>, raised |-> "draw"]
    ELSE IF lm.n > 0 /\ idx < len
    THEN IF series_at(idx, len) = "IndexError"
         THEN [layers |-> skeleton_layer(lm), trail |-> <<>>,
               raised |-> "index"]
         ELSE [layers |-> skeleton_layer(lm) \cup
                          (IF has_ankles(lm) THEN {"overlay"} ELSE {}),
               trail |-> <<>>, raised |-> None]
    ELSE [layers |-> skeleton_layer(lm), trail |-> <<>>, raised |-> None]

\* ------------------------------------------------------------- trail
\* Mutant of com_thickness: 3 * alpha is rounded up.
com_thickness_rounded_up(i, n) == Max({1, (3 * (i + 1) + n - 1) \div n})

\* video_processor.py:151-154  alpha = (i + 1) / len(com_trail);
\* thickness = max(1, int(3 * alpha)), for the segment i (0-based) of a
\* trail of n points.  int() truncates: int(3 * (i + 1) / n) is the integer
\* quotient.
com_thickness(i, n) == Max({1, (3 * (i + 1)) \div n})

\* head_viz.py:347-348  thickness = max(1, int(2 * alpha))
head_thickness(i, n) == Max({1, (2 * (i + 1)) \div n})

\* The thickness of each segment drawn for the trail tr, oldest first:
\* "if trail and len(trail) > 1: for i in range(len(trail) - 1)".
trail_segments(pl, tr) ==
    IF Len(tr) > 1
    THEN [k \in 1..(Len(tr) - 1) |->
             IF pl = "com" THEN com_thickness(k - 1, Len(tr))
             ELSE head_thickness(k - 1, Len(tr))]
    ELSE <<>>

\* pose_drawing.py:22-46  POSE_CONNECTIONS, the pairs of landmark indices
\* (the body-part label of each pair only picks its colour)
POSE_CONNECTIONS ==
    { <<11, 12>>, <<11, 23>>, <<12, 24>>, <<23, 24>>,
      <<11, 13>>, <<13, 15>>, <<12, 14>>, <<14, 16>>,
      <<23, 25>>, <<25, 27>>, <<24, 26>>, <<26, 28>>,
      <<27, 29>>, <<29, 31>>, <<28, 30>>, <<30, 32>>,
      <<27, 31>>, <<28, 32>> }

\* pose_drawing.py:73-76  points: one entry per index of enumerate(landmarks)
points(n) == 0..(n - 1)

\* Mutant of connections_drawn: a connection is drawn as soon as its start
\* index is present.
connections_drawn_from_start(n) ==
    { c \in POSE_CONNECTIONS : c[1] \in points(n) }

\* pose_drawing.py:82-85  the connections draw_pose_on_frame draws for a
\* list of n landmarks: "if start_idx in points and end_idx in points"
connections_drawn(n) ==
    { c \in POSE_CONNECTIONS : c[1] \in points(n) /\ c[2] \in points(n) }

\* What is recorded of a loop iteration: idx is the frame_idx used for the
\* look-ups, pos the position of the frame in decode order, lm and ok the
\* frame's landmark list, segments the trail segments drawn by the metric
\* renderer, connections the skeleton connections drawn.
frame_record(f, lm) ==
    [idx |-> frame_idx, pos |-> decoded, lm |-> lm.n, ok |-> lm.ok,
     layers |-> f.layers,
     segments |-> IF "overlay" \in f.layers /\ pipeline \in {"com", "head"}
                  THEN trail_segments(pipeline, f.trail) ELSE <<>>,
     connections |-> IF "skeleton" \in f.layers
                     THEN connections_drawn(lm.n) ELSE {}]

\* ------------------------------------------------------------ frame loop
\* Mutant of WriteFrame: a frame without landmarks is skipped with
\* "continue" before out.write and before frame_idx += 1.
WriteFrame_skip_without_landmarks(f, lm, wr) ==
    /\ last' = frame_record(f, lm)
    /\ trail' = f.trail
    /\ decoded' = decoded + 1
    /\ IF lm.n = 0
       THEN /\ pc' = "loop"
            /\ UNCHANGED <<frame_idx, encode_error, raise_cause, handed>>
       ELSE IF f.raised # None
       THEN /\ pc' = "raised"
            /\ raise_cause' = f.raised
            /\ UNCHANGED <<frame_idx, encode_error, handed>>
       ELSE IF out = "open" /\ wr = "raise"
       THEN /\ pc' = "raised"
            /\ raise_cause' = "write"
            /\ encode_error' = TRUE
            /\ handed' = Append(handed, decoded)
            /\ UNCHANGED frame_idx
       ELSE /\ pc' = "loop"
            /\ frame_idx' = frame_idx + 1
            /\ handed' = Append(handed, decoded)
            /\ encode_error' = (encode_error \/ (out = "open" /\ wr = "silent"))
            /\ UNCHANGED raise_cause
    /\ UNCHANGED <<cap, props, out_props, out, open_attempts, codec, probed,
                   probes_all_fail, out_codec,
                   out_path, final_output_path, heatmap, ffmpeg, files,
                   result>>
    /\ UNCHANGED <<codec_vars, arg_vars, aux_vars>>

\* The rest of a loop iteration once the frame just read is drawn into f:
\* out.write(frame); frame_idx += 1.  A write on an encoder that never
\* opened does nothing.
WriteFrame(f, lm, wr) ==
    /\ last' = frame_record(f, lm)
    /\ trail' = f.trail
    /\ decoded' = decoded + 1
    /\ IF f.raised # None
       THEN /\ pc' = "raised"
            /\ raise_cause' = f.raised
            /\ UNCHANGED <<frame_idx, encode_error, handed>>
       ELSE IF out = "open" /\ wr = "raise"
       THEN /\ pc' = "raised"
            /\ raise_cause' = "write"
            /\ encode_error' = TRUE
            /\ handed' = Append(handed, decoded)
            /\ UNCHANGED frame_idx
       ELSE /\ pc' = "loop"
            /\ frame_idx' = frame_idx + 1
            /\ handed' = Append(handed, decoded)
            /\ encode_error' = (encode_error \/ (out = "open" /\ wr = "silent"))
            /\ UNCHANGED raise_cause
    /\ UNCHANGED <<cap, props, out_props, out, open_attempts, codec, probed,
                   probes_all_fail, out_codec,
                   out_path, final_output_path, heatmap, ffmpeg, files,
                   result>>
    /\ UNCHANGED <<codec_vars, arg_vars, aux_vars>>

\* ret, frame = cap.read() delivered a frame
FrameRead == pc = "loop" /\ frame_idx < MaxFrames

ComFrame ==
    /\ FrameRead
    /\ pipeline = "com"
    /\ \E lm \in LandmarkSets, wr \in WriteOutcomes :
          WriteFrame(com_frame(frame_idx, lm, trail, series_len), lm, wr)

HeadFrame ==
    /\ FrameRead
    /\ pipeline = "head"
    /\ \E lm \in LandmarkSets, wr \in WriteOutcomes :
          WriteFrame(head_frame(frame_idx, lm, trail, series_len,
                                series_len_y, heatmap), lm, wr)

HipShoulderFrame ==
    /\ FrameRead
    /\ pipeline = "hip_shoulder"
    /\ \E lm \in LandmarkSets, wr \in WriteOutcomes :
          WriteFrame(hip_shoulder_frame(frame_idx, lm, series_len,
                                        downswing_start, downswing_end),
                     lm, wr)

KinematicsFrame ==
    /\ FrameRead
    /\ pipeline = "kinematics"
    /\ \E lm \in LandmarkSets, wr \in WriteOutcomes :
          WriteFrame(kinematics_frame(frame_idx, lm), lm, wr)

FbrFrame ==
    /\ FrameRead
    /\ pipeline = "fbr"
    /\ \E lm \in LandmarkSets, wr \in WriteOutcomes :
          WriteFrame(fbr_frame(frame_idx, lm, series_len), lm, wr)

\* ret is False: break
EndOfInput ==
    /\ pc = "loop"
    /\ pc' = "release"
    /\ UNCHANGED <<props, out_props, decoded, handed>>
    /\ UNCHANGED <<cap, out, open_attempts, codec, probed, probes_all_fail, out_codec,
                   out_path, final_output_path, frame_idx, trail, heatmap,
                   last, encode_error, raise_cause, ffmpeg, files, result>>
    /\ UNCHANGED <<codec_vars, arg_vars, aux_vars>>

\* Mutant of Release: out.release() is left out.
Release_decoder_only ==
    /\ pc = "release"
    /\ cap' = "released"
    /\ out' = out
    /\ IF pipeline = "com"
       THEN /\ pc' = "finalize"
            /\ UNCHANGED result
       ELSE /\ pc' = "returned"
            /\ result' = final_output_path
    /\ UNCHANGED <<props, out_props, decoded, handed>>
    /\ UNCHANGED <<open_attempts, codec, probed, probes_all_fail, out_codec, out_path,
                   final_output_path, frame_idx, trail, heatmap, last,
                   encode_error, raise_cause, ffmpeg, files>>
    /\ UNCHANGED <<codec_vars, arg_vars, aux_vars>>

\* cap.release(); out.release(); the four runs without finalization then
\* return their output path.  Releasing an encoder that never opened
\* leaves it as it is.
Release ==
    /\ pc = "release"
    /\ cap' = "released"
    /\ out' = (IF out = "open" THEN "released" ELSE out)
    /\ IF pipeline = "com"
       THEN /\ pc' = "finalize"
            /\ UNCHANGED result
       ELSE /\ pc' = "returned"
            /\ result' = final_output_path
    /\ UNCHANGED <<props, out_props, decoded, handed>>
    /\ UNCHANGED <<open_attempts, codec, probed, probes_all_fail, out_codec, out_path,
                   final_output_path, frame_idx, trail, heatmap, last,
                   encode_error, raise_cause, ffmpeg, files>>
    /\ UNCHANGED <<codec_vars, arg_vars, aux_vars>>

\* ------------------------------------------------------------ finalization
\* Mutant of convert_to_web_format: a failed conversion answers None, as
\* the docstring has it ("Path to converted video or None if failed").
convert_to_web_format_none_if_failed(input_path, web_path, fo) ==
    IF fo = "ok" THEN web_path ELSE NoPath

\* convert_to_web_format(input_path, output_path) with the ffmpeg run
\* ending as fo: the converted path when ffmpeg returned 0 and the output
\* exists, the input path otherwise.
convert_to_web_format(input_path, web_path, fo) ==
    IF fo = "ok" THEN web_path ELSE input_path

\* video_processor.py:242
needs_conversion(path) == ~(endswith(path, EXT_MP4) \/ endswith(path, EXT_WEBM))

\* Mutant of ComFinalize: the intermediate file is removed whatever the
\* conversion answered.
ComFinalize_removes_whatever ==
    /\ pc = "finalize"
    /\ IF needs_conversion(final_output_path)
       THEN \E fo \in FfmpegOutcomes :
               LET converted_path ==
                       convert_to_web_format(final_output_path, output_path, fo)
                   made == IF fo = "ok" THEN files \cup {output_path} ELSE files
               IN  /\ ffmpeg' = fo
                   /\ files' = made \ {final_output_path}
                   /\ result' = converted_path
       ELSE /\ result' = final_output_path
            /\ UNCHANGED <<ffmpeg, files>>
    /\ pc' = "returned"
    /\ UNCHANGED <<props, out_props, decoded, handed>>
    /\ UNCHANGED <<cap, out, open_attempts, codec, probed, probes_all_fail, out_codec,
                   out_path, final_output_path, frame_idx, trail, heatmap,
                   last, encode_error, raise_cause>>
    /\ UNCHANGED <<codec_vars, arg_vars, aux_vars>>

\* process_video_with_com_overlay, lines 241-253
ComFinalize ==
    /\ pc = "finalize"
    /\ IF needs_conversion(final_output_path)
       THEN \E fo \in FfmpegOutcomes :
               LET converted_path ==
                       convert_to_web_format(final_output_path, output_path, fo)
                   made == IF fo = "ok" THEN files \cup {output_path} ELSE files
               IN  /\ ffmpeg' = fo
                   /\ IF converted_path # final_output_path
                      THEN /\ files' = made \ {final_output_path}
                           /\ result' = converted_path
                      ELSE /\ files' = made
                           /\ result' = final_output_path
       ELSE /\ result' = final_output_path
            /\ UNCHANGED <<ffmpeg, files>>
    /\ pc' = "returned"
    /\ UNCHANGED <<props, out_props, decoded, handed>>
    /\ UNCHANGED <<cap, out, open_attempts, codec, probed, probes_all_fail, out_codec,
                   out_path, final_output_path, frame_idx, trail, heatmap,
                   last, encode_error, raise_cause>>
    /\ UNCHANGED <<codec_vars, arg_vars, aux_vars>>

\* ------------------------------------------------------------ specification
Next ==
    \/ OpenCapture
    \/ ComCreateWriter
    \/ HeadOpenWriter
    \/ HipShoulderOpenWriter
    \/ KinematicsOpenWriter
    \/ FbrOpenWriter
    \/ ExtractData
    \/ ComFrame
    \/ HeadFrame
    \/ HipShoulderFrame
    \/ KinematicsFrame
    \/ FbrFrame
    \/ EndOfInput
    \/ Release
    \/ ComFinalize

Spec == Init /\ [][Next]_vars

\* ----------------------------------------------- negotiation on its own
InitCodec ==
    /\ probe_env \in [Candidates -> ProbeOutcomes]
    /\ detected = NotDetected
    /\ pipeline = "com"
    /\ output_path = <<"out", ".", "mp4">>
    /\ series_len = 0
    /\ series_len_y = 0
    /\ downswing_start = 0
    /\ downswing_end = 0
    /\ video = SampleVideo
    /\ metadata = SampleMetadata
    /\ InitRunVars
    /\ InitAuxVars

\* One call of detect_available_codec() in the environment probe_env
DetectAvailableCodec ==
    /\ detected = NotDetected
    /\ detected' = detect_available_codec(probe_env)
    /\ UNCHANGED <<probe_env, arg_vars, run_vars, aux_vars>>

NextCodec == DetectAvailableCodec

SpecCodec == InitCodec /\ [][NextCodec]_vars

\* =================================================================== claims
Terminal == {"returned", "raised"}

\* The per-frame loop of the run was entered and has ended, and control is
\* back at the caller.
LoopEndedAtCaller ==
    \/ pc = "returned" /\ final_output_path # NoPath
    \/ pc = "raised" /\ raise_cause \in {"draw", "index", "write"}

\* C1: however the per-frame loop ends (input exhausted, or an exception
\* raised while looking up, drawing or writing a frame), the decoder and the
\* encoder are both released when control is back at the caller.
C1_ReleasedOnEveryExit ==
    LoopEndedAtCaller => (cap # "open" /\ out # "open")

\* C2: in every pipeline, when the output encoder could not be opened at the
\* resolved output path, the run returns None, never the path.
C2_UnopenedEncoderReturnsNone ==
    (pc = "returned" /\ open_attempts > 0 /\ out = "closed")
        => result = NoPath

\* The candidates of the negotiation's environment that pass both checks.
Passing == { i \in Candidates : Verifies(probe_env[i]) }
FirstPassing == IF Passing = {} THEN 0
                ELSE CHOOSE i \in Passing : \A j \in Passing : i <= j

\* C3: negotiation returns the first candidate, in the order VP8/.webm,
\* VP9/.webm, MJPEG/.avi, MPEG4/.mp4, H264/.mp4, that passes both checks,
\* with that candidate's extension; the earlier candidates were probed in
\* order and rejected, and no later candidate is probed.
C3_FirstPassingCandidate ==
    detected # NotDetected =>
        /\ [i \in Candidates |-> <<codecs_to_try[i].name, codecs_to_try[i].ext>>]
             = << <<"VP8", EXT_WEBM>>, <<"VP9", EXT_WEBM>>,
                  <<"MJPEG", EXT_AVI>>, <<"MPEG4", EXT_MP4>>,
                  <<"H264", EXT_MP4>> >>
        /\ detected.sel = FirstPassing
        /\ FirstPassing # 0 =>
              /\ detected.name = codecs_to_try[FirstPassing].name
              /\ detected.ext = codecs_to_try[FirstPassing].ext
              /\ detected.fourcc = codecs_to_try[FirstPassing].fourcc
              /\ detected.probes = [i \in 1..FirstPassing |-> i]
        /\ FirstPassing = 0 =>
              /\ detected.ext = NoPath
              /\ detected.probes = [i \in Candidates |-> i]

\* C3 witness: only the third candidate (and later ones or not) persists a
\* frame: MJPEG/.avi is returned after VP8 and VP9 were probed and rejected.
C3_Witness ==
    /\ detected.sel = 3
    /\ detected.ext = EXT_AVI
    /\ detected.probes = <<1, 2, 3>>
    /\ ~Verifies(probe_env[1]) /\ ~Verifies(probe_env[2])
    /\ Verifies(probe_env[4])

\* A candidate whose writer reports it opened, but whose test file is
\* missing or empty after the test frame.
OpensButWritesNothing(o) == o.opened /\ (~o.exists \/ o.size = 0)

\* C4: a candidate whose writer opens but whose test file does not exist or
\* has size zero is never the one negotiation selects.
C4_SilentWriteFailureNotSelected ==
    detected # NotDetected =>
        \A i \in Candidates :
            OpensButWritesNothing(probe_env[i]) => detected.sel # i

\* C4 witness: the first candidate opens and leaves an empty file, the
\* second opens and leaves no file, and a later candidate is selected.
C4_Witness ==
    /\ detected # NotDetected
    /\ probe_env[1].opened /\ probe_env[1].exists /\ probe_env[1].size = 0
    /\ probe_env[2].opened /\ ~probe_env[2].exists
    /\ detected.sel = 3

\* C5: when all five candidates fail the verification, the COM run returns
\* None, has opened no output writer and created no output file, and has
\* released the decoder.
C5_NoCodecFailsRun ==
    (pipeline = "com" /\ probed > 0 /\ probes_all_fail) =>
        /\ pc = "returned"
        /\ result = NoPath
        /\ codec = 0
        /\ probed = Len(codecs_to_try)
        /\ open_attempts = 0
        /\ out = "unset"
        /\ files = {}
        /\ cap = "released"

C5_Witness ==
    /\ pipeline = "com"
    /\ probes_all_fail
    /\ probed = 5
    /\ pc = "returned"
    /\ result = NoPath
    /\ cap = "released"

\* The container extension the priority list pairs with a fourcc.
ContainerOf(fourcc) ==
    LET i == CHOOSE j \in Candidates : codecs_to_try[j].fourcc = fourcc
    IN  codecs_to_try[i].ext

\* C6: the path a run returns on success carries the extension of the
\* container of the codec the encoder was opened with (the negotiated one),
\* and is at the path the encoder was opened at; the hint's extension does
\* not decide it.
C6_ReturnedExtensionIsEncoders ==
    (pc = "returned" /\ result # NoPath) =>
        /\ ExtOf(result) = ContainerOf(out_codec)
        /\ ExtOf(result) = ExtOf(out_path)

\* C7: create_video_writer replaces the extension of the requested path by
\* the negotiated container's, whatever the requested extension, leaves the
\* rest of the path as it is, and opens the encoder at exactly that path
\* with the negotiated codec.
C7_PathRewrittenToNegotiated ==
    (pipeline = "com" /\ codec # 0) =>
        /\ open_attempts = 1
        /\ out_path = StemOf(output_path) \o codecs_to_try[codec].ext
        /\ out_codec = codecs_to_try[codec].fourcc
        /\ final_output_path \in {NoPath, out_path}
        /\ (final_output_path = NoPath) <=> (out = "closed")

\* C7 witness: MJPEG was negotiated and the '.mp4' hint in a dotted
\* directory became '.avi' in the same directory, where the encoder opened.
C7_Witness ==
    /\ pipeline = "com"
    /\ codec = 3
    /\ output_path = <<"t", ".", "d", "/", "out", ".", "mp4">>
    /\ out_path = <<"t", ".", "d", "/", "out", ".", "avi">>
    /\ out_codec = "MJPG"
    /\ final_output_path = out_path
    /\ out = "open"

\* C8: a run in which handing a frame to the encoder failed ends with the
\* failure marker None returned to the caller, never with a path (nor with
\* an exception in place of the marker).
C8_EncodeErrorReturnsNone ==
    (encode_error /\ pc \in Terminal) => (pc = "returned" /\ result = NoPath)

\* The length L of the metric series a pipeline indexes by frame (the head
\* run indexes two series and draws while both cover the frame).
HasSeries == pipeline # "kinematics"
SeriesLen == IF pipeline = "head" /\ series_len_y < series_len
             THEN series_len_y ELSE series_len

\* last is a frame the loop has drawn without the drawing of the skeleton
\* raising.
FrameDrawn == last.idx >= 0 /\ ~(pc = "raised" /\ raise_cause = "draw")

NoLandmarksButCovered ==
    HasSeries /\ FrameDrawn /\ last.lm = 0 /\ last.idx < SeriesLen

\* C10 as stated: in every metric pipeline such a frame gets no skeleton
\* and still gets the metric overlay.
C10_OverlayWithoutLandmarks ==
    NoLandmarksButCovered =>
        ("skeleton" \notin last.layers /\ "overlay" \in last.layers)

\* C10 amended: such a frame gets no skeleton in any pipeline; it still gets
\* the metric overlay in the COM and head runs, and gets no overlay in the
\* FBR and hip-shoulder runs, whose overlays are drawn from the landmarks.
C10_OverlayWithoutLandmarksComHead ==
    NoLandmarksButCovered =>
        /\ "skeleton" \notin last.layers
        /\ ("overlay" \in last.layers) <=> (pipeline \in {"com", "head"})

\* C10 witness: a COM frame and no landmarks, the overlay drawn alone.
C10_Witness ==
    /\ pipeline = "com"
    /\ NoLandmarksButCovered
    /\ last.idx > 0
    /\ last.layers = {"overlay"}

\* Decode positions 0 .. n-1, in order.
InDecodeOrder(n) == [k \in 1..n |-> k - 1]

\* An exception left the loop in the iteration of the frame last read.
RaisedInFrame == pc = "raised" /\ raise_cause \in {"draw", "index", "write"}

\* C11: every decoded frame is passed to out.write exactly once and in
\* decode order, so that T decoded frames are T frames handed to the
\* encoder; the k-th decoded frame (0-based) is annotated with frame_idx k;
\* and no iteration ends the loop because its frame has no landmark set,
\* its index is beyond the metric series, or its trail has fewer than 2
\* points: the only iterations that end it raise on a malformed landmark
\* set or in out.write itself, and every frame before them was handed over.
C11_EveryFrameHandedInOrder ==
    /\ handed = InDecodeOrder(Len(handed))
    /\ ~RaisedInFrame => (Len(handed) = decoded /\ frame_idx = decoded)
    /\ RaisedInFrame =>
          Len(handed) = (IF raise_cause = "write" THEN decoded ELSE decoded - 1)
    /\ last.idx = last.pos
    /\ raise_cause # "index"
    /\ (RaisedInFrame /\ raise_cause = "draw") => last.lm > 0

\* C11 witness: a COM run has read every frame of a video longer than its
\* series and left the loop; the last frame had no landmark set, lay beyond
\* the series and drew no trail, and all frames were handed over in order.
C11_Witness ==
    /\ pipeline = "com"
    /\ pc = "release"
    /\ decoded = MaxFrames
    /\ handed = InDecodeOrder(MaxFrames)
    /\ series_len < MaxFrames
    /\ last.pos = MaxFrames - 1
    /\ last.lm = 0
    /\ last.segments = <<>>

\* ============================================================ phase schemes
\* The phase test each metric renderer applies to the frame index it is
\* given, as the colour or the label the renderer picks.
MaxKeyFrame == 3
MaxPhaseFrame == 5

PhaseSchemes == {"com", "head", "fbr", "kinematics"}

\* Mutant of com_phase: the impact marker is tested before the stance
\* marker.
com_phase_impact_first(idx, stance_frame, impact_frame) ==
    IF idx <= impact_frame THEN "Green"
    ELSE IF idx < stance_frame THEN "Blue"
    ELSE "Orange"

\* Mutant of com_phase: the impact frame itself is already post-impact.
com_phase_impact_excluded(idx, stance_frame, impact_frame) ==
    IF idx < stance_frame THEN "Blue"
    ELSE IF idx < impact_frame THEN "Green"
    ELSE "Orange"

\* video_processor.py:133-139, draw_com_on_frame: color
com_phase(idx, stance_frame, impact_frame) ==
    IF idx < stance_frame THEN "Blue"
    ELSE IF idx <= impact_frame THEN "Green"
    ELSE "Orange"

\* Mutant of head_phase: a frame up to the impact frame is green whatever
\* the stance frame is.
head_phase_green_to_impact(idx, stance_frame, impact_frame) ==
    IF idx <= impact_frame THEN "Green"
    ELSE IF idx < stance_frame THEN "Blue"
    ELSE "Orange"

\* head_viz.py:322-328, draw_head_on_frame: color
head_phase(idx, stance_frame, impact_frame) ==
    IF idx < stance_frame THEN "Blue"
    ELSE IF idx <= impact_frame THEN "Green"
    ELSE "Orange"

\* Mutant of fbr_phase: the lowest-COM frame is already RECOVERY.
fbr_phase_lowest_excluded(idx, plant_frame, lowest_frame) ==
    IF idx < plant_frame THEN "PRE-PLANT"
    ELSE IF idx = plant_frame THEN "FOOT PLANT"
    ELSE IF idx < lowest_frame THEN "DESCENT"
    ELSE "RECOVERY"

\* fbr_video_processor.py:36-48, draw_fbr_overlay: phase_text
fbr_phase(idx, plant_frame, lowest_frame) ==
    IF idx < plant_frame THEN "PRE-PLANT"
    ELSE IF idx = plant_frame THEN "FOOT PLANT"
    ELSE IF idx <= lowest_frame THEN "DESCENT"
    ELSE "RECOVERY"

\* Mutant of kinematics_phase: the torso marker is tested before the hip
\* marker.
kinematics_phase_torso_first(idx, hip_frame, torso_frame, shoulder_frame) ==
    IF idx <= torso_frame THEN "TORSO DOMINANT"
    ELSE IF idx <= hip_frame THEN "HIP DOMINANT"
    ELSE IF idx <= shoulder_frame THEN "SHOULDER DOMINANT"
    ELSE "SEQUENCE COMPLETE"

\* Mutant of kinematics_phase: the markers are tested with "<".
kinematics_phase_strict(idx, hip_frame, torso_frame, shoulder_frame) ==
    IF idx < hip_frame THEN "HIP DOMINANT"
    ELSE IF idx < torso_frame THEN "TORSO DOMINANT"
    ELSE IF idx < shoulder_frame THEN "SHOULDER DOMINANT"
    ELSE "SEQUENCE COMPLETE"

\* kinematics_video_processor.py:46-70, draw_kinematics_overlay: phase
kinematics_phase(idx, hip_frame, torso_frame, shoulder_frame) ==
    IF idx <= hip_frame THEN "HIP DOMINANT"
    ELSE IF idx <= torso_frame THEN "TORSO DOMINANT"
    ELSE IF idx <= shoulder_frame THEN "SHOULDER DOMINANT"
    ELSE "SEQUENCE COMPLETE"

\* The key-frame markers a scheme reads from the analysis record:
\* <<stance_frame, impact_frame>>, <<plant_frame, lowest_com_frame>>,
\* <<hip_frame, torso_frame, shoulder_frame>>.
KeyFramesOf(s) ==
    IF s = "kinematics"
    THEN { <<a, b, c>> : a \in 0..MaxKeyFrame, b \in 0..MaxKeyFrame,
                         c \in 0..MaxKeyFrame }
    ELSE { <<a, b>> : a \in 0..MaxKeyFrame, b \in 0..MaxKeyFrame }

\* A run's key frames are read; no frame has been drawn yet.
InitPhase ==
    /\ probe_env = <<>>
    /\ detected = NotDetected
    /\ pipeline = "com"
    /\ output_path = <<"out", ".", "mp4">>
    /\ series_len = 0
    /\ series_len_y = 0
    /\ downswing_start = 0
    /\ downswing_end = 0
    /\ video = SampleVideo
    /\ metadata = SampleMetadata
    /\ InitRunVars
    /\ scheme \in PhaseSchemes
    /\ key_frames \in KeyFramesOf(scheme)
    /\ ph_frame = -1
    /\ phase = None
    /\ pose_data = <<>>
    /\ pose_map = NotBuilt

\* The renderer of the scheme is called for a later frame: the loops call
\* it with increasing frame_idx, and not for every frame (only for frames
\* the series covers, FBR and kinematics only for frames with landmarks).
DrawPhase(s, ph) ==
    /\ scheme = s
    /\ \E i \in (ph_frame + 1)..MaxPhaseFrame :
          /\ ph_frame' = i
          /\ phase' = ph[i]
    /\ UNCHANGED <<scheme, key_frames, pose_data, pose_map>>
    /\ UNCHANGED <<codec_vars, arg_vars, run_vars>>

DrawComPhase ==
    DrawPhase("com", [i \in 0..MaxPhaseFrame |->
                         com_phase(i, key_frames[1], key_frames[2])])

DrawHeadPhase ==
    DrawPhase("head", [i \in 0..MaxPhaseFrame |->
                          head_phase(i, key_frames[1], key_frames[2])])

DrawFbrPhase ==
    DrawPhase("fbr", [i \in 0..MaxPhaseFrame |->
                         fbr_phase(i, key_frames[1], key_frames[2])])

DrawKinematicsPhase ==
    DrawPhase("kinematics",
              [i \in 0..MaxPhaseFrame |->
                  kinematics_phase(i, key_frames[1], key_frames[2],
                                   key_frames[3])])

NextPhase ==
    \/ DrawComPhase
    \/ DrawHeadPhase
    \/ DrawFbrPhase
    \/ DrawKinematicsPhase

SpecPhase == InitPhase /\ [][NextPhase]_vars

\* A frame of the COM or the head overlay has been coloured.
ComOrHeadDrawn == scheme \in {"com", "head"} /\ ph_frame >= 0

\* C12: in the COM overlay (and the head overlay, which has the same
\* test), with stance_frame <= impact_frame, frame i gets the pre-stance
\* colour iff i < stance_frame, the stance-to-impact colour iff
\* stance_frame <= i <= impact_frame, and the post-impact colour iff
\* i > impact_frame.
C12_ComPhaseColours ==
    (ComOrHeadDrawn /\ key_frames[1] <= key_frames[2]) =>
        /\ phase = "Blue" <=> ph_frame < key_frames[1]
        /\ phase = "Green" <=>
              (key_frames[1] <= ph_frame /\ ph_frame <= key_frames[2])
        /\ phase = "Orange" <=> ph_frame > key_frames[2]

\* C12 witness: the COM overlay colours the impact frame itself, which is
\* later than the stance frame, in the stance-to-impact colour.
C12_Witness ==
    /\ scheme = "com"
    /\ key_frames[1] < key_frames[2]
    /\ ph_frame = key_frames[2]
    /\ phase = "Green"

\* The phases of a scheme that begin at, and that end at, its j-th marker.
PhaseBeginningAt(s, j) ==
    IF s \in {"com", "head"} THEN <<"Green", "Orange">>[j]
    ELSE IF s = "fbr" THEN <<"FOOT PLANT", "RECOVERY">>[j]
    ELSE <<"TORSO DOMINANT", "SHOULDER DOMINANT", "SEQUENCE COMPLETE">>[j]

PhaseEndingAt(s, j) ==
    IF s \in {"com", "head"} THEN <<"Blue", "Green">>[j]
    ELSE IF s = "fbr" THEN <<"PRE-PLANT", "DESCENT">>[j]
    ELSE <<"HIP DOMINANT", "TORSO DOMINANT", "SHOULDER DOMINANT">>[j]

\* The markers a scheme tests with "<" (frame_idx < stance_frame,
\* frame_idx < plant_frame); every other marker is tested with "<=".
StrictMarkers(s) == IF s = "kinematics" THEN {} ELSE {1}

\* A frame was drawn under markers that are distinct and in order.
DrawnUnderOrderedMarkers ==
    /\ ph_frame >= 0
    /\ \A j \in 1..(Len(key_frames) - 1) : key_frames[j] < key_frames[j + 1]

\* C13 as stated: in every phase scheme (COM, head, FBR, kinematics) a
\* frame whose index equals a key-frame marker is in the phase beginning at
\* that marker, not in the phase ending there.
C13_MarkerFrameBeginsPhase ==
    DrawnUnderOrderedMarkers =>
        \A j \in 1..Len(key_frames) :
            ph_frame = key_frames[j] => phase = PhaseBeginningAt(scheme, j)

\* C13 amended: a frame whose index equals a key-frame marker is in the
\* phase beginning at that marker for the markers tested with "<" only
\* (stance_frame of COM and head, plant_frame of FBR); for the markers
\* tested with "<=" (impact_frame, lowest_com_frame, hip_frame, torso_frame,
\* shoulder_frame) it is in the phase ending at that marker.
C13_MarkerFrameByTest ==
    DrawnUnderOrderedMarkers =>
        \A j \in 1..Len(key_frames) :
            ph_frame = key_frames[j] =>
                phase = (IF j \in StrictMarkers(scheme)
                         THEN PhaseBeginningAt(scheme, j)
                         ELSE PhaseEndingAt(scheme, j))

\* C13 witness: the kinematics overlay draws the frame of the torso peak,
\* which lies between the hip and the shoulder peak, as TORSO DOMINANT: the
\* phase that ends at that marker.
C13_Witness ==
    /\ scheme = "kinematics"
    /\ key_frames[1] < key_frames[2]
    /\ key_frames[2] < key_frames[3]
    /\ ph_frame = key_frames[2]
    /\ phase = "TORSO DOMINANT"

\* ================================================================== trails
\* The COM and the head run on videos long enough to fill their trail.
MaxTrailFrames == 22

InitTrail ==
    /\ probe_env = <<>>
    /\ detected = NotDetected
    /\ pipeline \in {"com", "head"}
    /\ output_path = <<"out", ".", "webm">>
    /\ series_len \in 0..MaxTrailFrames
    /\ series_len_y = series_len
    /\ downswing_start = 0
    /\ downswing_end = 0
    /\ video = SampleVideo
    /\ metadata = SampleMetadata
    /\ InitRunVars
    /\ InitAuxVars

\* ret, frame = cap.read() delivered a frame of the long video
LongFrameRead == pc = "loop" /\ frame_idx < MaxTrailFrames

ComLongFrame ==
    /\ LongFrameRead
    /\ pipeline = "com"
    /\ \E lm \in LandmarkSets, wr \in WriteOutcomes :
          WriteFrame(com_frame(frame_idx, lm, trail, series_len), lm, wr)

HeadLongFrame ==
    /\ LongFrameRead
    /\ pipeline = "head"
    /\ \E lm \in LandmarkSets, wr \in WriteOutcomes :
          WriteFrame(head_frame(frame_idx, lm, trail, series_len,
                                series_len_y, heatmap), lm, wr)

NextTrail ==
    \/ OpenCapture
    \/ ComCreateWriter
    \/ HeadOpenWriter
    \/ ExtractData
    \/ ComLongFrame
    \/ HeadLongFrame
    \/ EndOfInput
    \/ Release
    \/ ComFinalize

SpecTrail == InitTrail /\ [][NextTrail]_vars

Min(a, b) == IF a <= b THEN a ELSE b

\* trail_length of the run
TrailCapacity == IF pipeline = "com" THEN ComTrailLength ELSE HeadTrailLength

\* The number of values pushed so far: one per iteration whose frame index
\* the series covers, the iteration that raised in out.write included and
\* the one that raised while drawing the skeleton not.
PushCount ==
    LET iterations == IF pc = "raised" /\ raise_cause = "write"
                      THEN frame_idx + 1 ELSE frame_idx
    IN  Min(iterations, Min(series_len, series_len_y))

\* C14: the trail buffer (capacity N = 15 for COM, 20 for head) never holds
\* more than N values when it is rendered, and after M pushes it holds the
\* most recent min(M, N) pushed values in insertion order: after M > N
\* pushes exactly the most recent N, the oldest having been evicted first.
C14_TrailHoldsMostRecent ==
    pipeline \in {"com", "head"} =>
        LET n == Min(PushCount, TrailCapacity)
        IN  /\ ComTrailLength = 15
            /\ HeadTrailLength = 20
            /\ Len(trail) <= TrailCapacity
            /\ trail = [k \in 1..n |-> PushCount - n + k - 1]

\* C14 witness: the head run has pushed 22 values and rendered the frame;
\* its trail holds the 20 most recent ones, the values of frames 2..21.
C14_Witness ==
    /\ pipeline = "head"
    /\ PushCount = HeadTrailLength + 2
    /\ "overlay" \in last.layers
    /\ Len(trail) = HeadTrailLength
    /\ trail[1] = 2
    /\ trail[HeadTrailLength] = HeadTrailLength + 1

\* Python's round(a / b) for naturals a, b > 0: the nearest integer, a tie
\* going to the even one.
round(a, b) ==
    LET q == a \div b
        r == a % b
    IN  IF 2 * r < b THEN q
        ELSE IF 2 * r > b THEN q + 1
        ELSE IF q % 2 = 0 THEN q ELSE q + 1

\* C15: each trail segment at position k (0-based, from the oldest end) of
\* a rendered trail of N buffered points is drawn with thickness
\* max(1, round(3 * (k+1) / N)).
C15_ThicknessRounded ==
    LET N == Len(last.segments) + 1
    IN  \A k \in 0..(N - 2) :
            last.segments[k + 1] = Max({1, round(3 * (k + 1), N)})

\* The finalization step of the COM run has run ffmpeg and ffmpeg failed:
\* not found, timed out, exited non-zero, or left no output file.
RemuxFailed == pc = "returned" /\ ffmpeg \in FfmpegOutcomes \ {"ok"}

InitOpen ==
    /\ probe_env = <<>>
    /\ detected = NotDetected
    /\ pipeline \in Pipelines
    /\ output_path \in Hints
    /\ series_len = 0
    /\ series_len_y = 0
    /\ downswing_start = 0
    /\ downswing_end = 0
    /\ video \in VideoProps
    /\ metadata \in Metadatas
    /\ InitRunVars
    /\ InitAuxVars

NextOpen ==
    \/ OpenCapture
    \/ ComCreateWriter
    \/ HeadOpenWriter
    \/ HipShoulderOpenWriter
    \/ KinematicsOpenWriter
    \/ FbrOpenWriter

SpecOpen == InitOpen /\ [][NextOpen]_vars

\* C17: the output encoder is always constructed with exactly the width,
\* the height and the fps the decoder reports for the input video, whatever
\* the metadata argument and the caller's output-path hint are.
C17_EncoderGetsDecoderProps ==
    open_attempts > 0 =>
        /\ out_props.width * 100 = video.width
        /\ out_props.height * 100 = video.height
        /\ out_props.fps = video.fps

\* C17 witness: a 1920x1080 video at 29.97 fps, analysed as 1280x720 at 24
\* fps according to the metadata, gets a 1920x1080 encoder at 29.97 fps in
\* the kinematics run.
C17_Witness ==
    /\ pipeline = "kinematics"
    /\ open_attempts > 0
    /\ metadata = [width |-> 1280, height |-> 720, fps |-> 2400]
    /\ out_props = [width |-> 1920, height |-> 1080, fps |-> 2997]

\* ========================================================= landmark index
\* pose_data is the sparse per-frame list: one item per analysed frame,
\* [frame_idx, landmarks], landmarks being the number of landmarks of the
\* item's list: 0 for an empty list, -1 when the item has no 'landmarks'
\* key or has None there.
MaxPoseItems == 3
MaxPoseFrame == 2

LandmarkCounts == {-1, 0, 12, 33}

PoseItems ==
    [frame_idx : 0..MaxPoseFrame, landmarks : LandmarkCounts]

RECURSIVE PoseLists(_)
PoseLists(n) ==
    IF n = 0 THEN {<<>>}
    ELSE LET shorter == PoseLists(n - 1)
         IN  shorter \cup
             { Append(pd, item) : pd \in { l \in shorter : Len(l) = n - 1 },
                                  item \in PoseItems }

\* Mutant of has_landmarks: every item has them.
has_landmarks_whatever(item) == TRUE

\* "if item.get('landmarks')": None and the empty list are falsy
has_landmarks(item) == item.landmarks > 0

\* d[k] = v on a dict
dict_put(d, k, v) ==
    [x \in (DOMAIN d) \cup {k} |-> IF x = k THEN v ELSE d[x]]

\* {item['frame_idx']: item['landmarks'] for item in pose_data
\*  if item.get('landmarks')}, the items from pd on added to d
RECURSIVE dict_comprehension(_, _)
dict_comprehension(pd, d) ==
    IF pd = <<>> THEN d
    ELSE LET item == Head(pd)
         IN  dict_comprehension(
                 Tail(pd),
                 IF has_landmarks(item)
                 THEN dict_put(d, item.frame_idx, item.landmarks)
                 ELSE d)

InitPoseMap ==
    /\ probe_env = <<>>
    /\ detected = NotDetected
    /\ pipeline = "com"
    /\ output_path = <<"out", ".", "mp4">>
    /\ series_len = 0
    /\ series_len_y = 0
    /\ downswing_start = 0
    /\ downswing_end = 0
    /\ video = SampleVideo
    /\ metadata = SampleMetadata
    /\ InitRunVars
    /\ scheme = None
    /\ key_frames = <<>>
    /\ ph_frame = -1
    /\ phase = None
    /\ pose_data \in PoseLists(MaxPoseItems)
    /\ pose_map = NotBuilt

\* pose_map = {...}
BuildPoseMap ==
    /\ pose_map = NotBuilt
    /\ pose_map' = dict_comprehension(pose_data, <<>>)
    /\ UNCHANGED <<scheme, key_frames, ph_frame, phase, pose_data>>
    /\ UNCHANGED <<codec_vars, arg_vars, run_vars>>

NextPoseMap == BuildPoseMap

SpecPoseMap == InitPoseMap /\ [][NextPoseMap]_vars

\* The items of pose_data with a non-empty landmark list.
NonEmptyItems ==
    { j \in 1..Len(pose_data) : pose_data[j].landmarks > 0 }

\* C18: the landmark index built from the sparse per-frame list has as keys
\* exactly the frame indices of the items with a non-empty landmark list;
\* items with an empty or absent list are skipped, so no key maps to an
\* empty list: every key maps to a non-empty list given for that frame.
C18_PoseMapKeys ==
    pose_map # NotBuilt =>
        /\ DOMAIN pose_map = { pose_data[j].frame_idx : j \in NonEmptyItems }
        /\ \A k \in DOMAIN pose_map :
              /\ pose_map[k] > 0
              /\ \E j \in NonEmptyItems :
                    /\ pose_data[j].frame_idx = k
                    /\ pose_data[j].landmarks = pose_map[k]

\* C18 witness: of three items for three frames, one with an empty list,
\* one with no list and one with 33 landmarks, only the last is a key.
C18_Witness ==
    /\ pose_map # NotBuilt
    /\ Len(pose_data) = 3
    /\ { pose_data[j].frame_idx : j \in 1..3 } = {0, 1, 2}
    /\ { pose_data[j].landmarks : j \in 1..3 } = {-1, 0, 33}
    /\ Cardinality(DOMAIN pose_map) = 1
    /\ \A k \in DOMAIN pose_map : pose_map[k] = 33

\* ======================================================= claims, continued
\* The last loop iteration had a frame whose index is no key of pose_map.
FrameWithoutLandmarks == last.pos >= 0 /\ last.lm = 0

\* C19: for every frame index with no entry in the landmark index the
\* skeleton layer is the identity: draw_pose_on_frame is not called for the
\* frame, puts nothing on it and cannot raise in it.
C19_NoEntryNoSkeleton ==
    FrameWithoutLandmarks =>
        /\ "skeleton" \notin last.layers
        /\ ~(pc = "raised" /\ raise_cause = "draw")

\* C19 witness: the FBR run has handed its fourth frame, which has no
\* landmark entry, to the encoder with nothing drawn on it.
C19_Witness ==
    /\ pipeline = "fbr"
    /\ pc = "loop"
    /\ last.pos = 3
    /\ last.lm = 0
    /\ last.layers = {}
    /\ Len(handed) = 4

\* C20: if the input video cannot be opened for decoding, every pipeline
\* returns None at once: no codec negotiation is run, no output encoder is
\* constructed, no output file is created and no frame is read.
C20_UnopenedInputReturnsNone ==
    cap = "closed" =>
        /\ pc = "returned"
        /\ result = NoPath
        /\ probed = 0
        /\ codec = 0
        /\ open_attempts = 0
        /\ out = "unset"
        /\ out_path = NoPath
        /\ final_output_path = NoPath
        /\ files = {}
        /\ decoded = 0

\* C20 witness: the hip-shoulder run was given a video that does not open
\* and is back at its caller with None.
C20_Witness ==
    /\ pipeline = "hip_shoulder"
    /\ cap = "closed"
    /\ pc = "returned"
    /\ result = NoPath
    /\ open_attempts = 0

\* ================================================ claims on the phase tests
\* A frame of the FBR overlay has been labelled.
FbrDrawn == scheme = "fbr" /\ ph_frame >= 0

FbrPhases == {"PRE-PLANT", "FOOT PLANT", "DESCENT", "RECOVERY"}

\* C21: the FBR classifier gives every frame index i exactly one of four
\* phases: PRE-PLANT iff i < plant_frame, FOOT PLANT iff i = plant_frame,
\* DESCENT iff plant_frame < i <= lowest_com_frame, RECOVERY otherwise; so
\* FOOT PLANT is the phase of one frame index at most.
C21_FbrPhases ==
    FbrDrawn =>
        LET plant_frame == key_frames[1]
            lowest_frame == key_frames[2]
        IN  /\ phase \in FbrPhases
            /\ phase = "PRE-PLANT" <=> ph_frame < plant_frame
            /\ phase = "FOOT PLANT" <=> ph_frame = plant_frame
            /\ phase = "DESCENT" <=>
                  (plant_frame < ph_frame /\ ph_frame <= lowest_frame)
            /\ phase = "RECOVERY" <=>
                  (ph_frame > plant_frame /\ ph_frame > lowest_frame)

\* C21 witness: the FBR overlay labels the lowest-COM frame, two frames
\* after the plant frame, DESCENT.
C21_Witness ==
    /\ scheme = "fbr"
    /\ key_frames[2] = key_frames[1] + 2
    /\ ph_frame = key_frames[2]
    /\ phase = "DESCENT"

\* A frame of the kinematics overlay has been labelled.
KinematicsDrawn == scheme = "kinematics" /\ ph_frame >= 0

\* C22: the kinematics classifier gives every frame index i exactly one of
\* four phases by inclusive upper bounds tested in order: HIP DOMINANT iff
\* i <= hip_frame; else TORSO DOMINANT iff i <= torso_frame; else SHOULDER
\* DOMINANT iff i <= shoulder_frame; else SEQUENCE COMPLETE.
C22_KinematicsPhases ==
    KinematicsDrawn =>
        LET hip == ph_frame <= key_frames[1]
            torso == ph_frame <= key_frames[2]
            shoulder == ph_frame <= key_frames[3]
        IN  /\ phase \in {"HIP DOMINANT", "TORSO DOMINANT",
                          "SHOULDER DOMINANT", "SEQUENCE COMPLETE"}
            /\ phase = "HIP DOMINANT" <=> hip
            /\ phase = "TORSO DOMINANT" <=> (~hip /\ torso)
            /\ phase = "SHOULDER DOMINANT" <=> (~hip /\ ~torso /\ shoulder)
            /\ phase = "SEQUENCE COMPLETE" <=> (~hip /\ ~torso /\ ~shoulder)

\* C22 witness: with the hip peak before the torso peak, a frame before the
\* hip peak (below both bounds) is HIP DOMINANT: the hip bound is tested
\* first.
C22_Witness ==
    /\ scheme = "kinematics"
    /\ key_frames[1] < key_frames[2]
    /\ ph_frame < key_frames[1]
    /\ phase = "HIP DOMINANT"

\* ============================================ claims on the finalization
\* The conversion step is about to run, or has run ffmpeg.
FinalizerAtWork == pc = "finalize" \/ ffmpeg # None

\* C23: the conversion step (ffmpeg) is attempted only after both the
\* decoder and the encoder of the run have been released: the finalizer
\* never reads the output file while the encoder holds it open.
C23_FinalizeAfterRelease ==
    FinalizerAtWork => (cap = "released" /\ out = "released")

\* C23 witness: ffmpeg has run on the .avi output (and exited non-zero)
\* with the decoder and the encoder released.
C23_Witness ==
    /\ pipeline = "com"
    /\ ffmpeg = "nonzero"
    /\ final_output_path = <<"out">> \o EXT_AVI
    /\ cap = "released"
    /\ out = "released"

\* ================================================= claims on the skeleton
\* The landmark indices the overlay renderer of a run reads.
NeededLandmarks ==
    IF pipeline = "fbr" THEN {L_ANKLE, R_ANKLE}
    ELSE IF pipeline \in {"hip_shoulder", "kinematics"}
    THEN {L_SHOULDER, R_SHOULDER, L_HIP, R_HIP}
    ELSE {}

\* C24: the skeleton renderer draws a connection (a, b) of the connection
\* table iff a and b are both indices of the frame's landmark list, that is
\* max(a, b) < len(landmarks); a truncated list makes it skip connections,
\* never raise (only a malformed landmark raises); and the FBR, hip-shoulder
\* and kinematics renderers leave the frame as it is when an index they
\* read is absent.
C24_ConnectionsNeedBothEnds ==
    last.pos >= 0 =>
        /\ "skeleton" \in last.layers =>
              \A c \in POSE_CONNECTIONS :
                  c \in last.connections <=> Max({c[1], c[2]}) < last.lm
        /\ last.connections \subseteq POSE_CONNECTIONS
        /\ (RaisedInFrame /\ raise_cause = "draw") => ~last.ok
        /\ raise_cause # "index"
        /\ "overlay" \in last.layers =>
              \A i \in NeededLandmarks : i < last.lm

\* C24 witness: an FBR frame with 25 landmarks (indices 0..24) gets the
\* torso and arm connections, not the one from the left hip (23) to the
\* left knee (25), and no FBR overlay, its ankles (27, 28) being absent;
\* the loop goes on.
C24_Witness ==
    /\ pipeline = "fbr"
    /\ pc = "loop"
    /\ last.lm = 25
    /\ last.idx < series_len
    /\ <<23, 24>> \in last.connections
    /\ <<23, 25>> \notin last.connections
    /\ Cardinality(last.connections) = 8
    /\ "overlay" \notin last.layers

\* ============================================== claims on the negotiation
\* C25: when detect_available_codec has returned, with a candidate or with
\* none, and whether or not a probe raised on the way, no test file of a
\* probed candidate exists any more.
C25_NoTestFileLeft ==
    detected # NotDetected => detected.files = {}

\* C25 witness: the probe of VP8 raised with its test file created, VP9
\* opened and left an empty file, and MJPEG was returned: the three test
\* files are gone.
C25_Witness ==
    /\ detected.sel = 3
    /\ probe_env[1].raises /\ probe_env[1].exists
    /\ probe_env[2].opened /\ probe_env[2].exists /\ probe_env[2].size = 0
    /\ detected.probes = <<1, 2, 3>>
    /\ detected.files = {}

\* ================================== claims on the phase tests, continued
\* The rank of a phase in its scheme; 0 before any frame is classified.
PhaseRank(p) ==
    IF p \in {"Blue", "PRE-PLANT", "HIP DOMINANT"} THEN 1
    ELSE IF p \in {"Green", "FOOT PLANT", "TORSO DOMINANT"} THEN 2
    ELSE IF p \in {"Orange", "DESCENT", "SHOULDER DOMINANT"} THEN 3
    ELSE IF p \in {"RECOVERY", "SEQUENCE COMPLETE"} THEN 4
    ELSE 0

\* C26: for any key-frame markers, in order or inverted, the rank of the
\* phase each classifier assigns (COM/head: pre-stance < stance-to-impact <
\* post-impact; FBR: PRE-PLANT < FOOT PLANT < DESCENT < RECOVERY;
\* kinematics: HIP < TORSO < SHOULDER < COMPLETE) never decreases from a
\* frame of a run to a later frame of the run.
C26_PhaseRankNeverDecreases ==
    [][ph_frame' > ph_frame => PhaseRank(phase') >= PhaseRank(phase)]_vars

\* C26 witness: with the kinematics markers inverted (shoulder peak before
\* torso peak before hip peak), a frame after the hip peak has been
\* classified, as SEQUENCE COMPLETE.
C26_Witness ==
    /\ scheme = "kinematics"
    /\ key_frames[3] < key_frames[2]
    /\ key_frames[2] < key_frames[1]
    /\ ph_frame > key_frames[1]
    /\ phase = "SEQUENCE COMPLETE"

\* C27: with inverted markers the phase they bound is given to no frame:
\* in the COM and head schemes with impact_frame < stance_frame no frame is
\* stance-to-impact, the frames below stance_frame are pre-stance and all
\* others post-impact; in the FBR scheme with lowest_com_frame <=
\* plant_frame no frame is DESCENT.  The tests are comparisons of
\* integers: every frame gets a phase, nothing raises.
C27_InvertedMarkersEmptyPhase ==
    /\ (ComOrHeadDrawn /\ key_frames[2] < key_frames[1]) =>
          /\ phase # "Green"
          /\ phase = "Blue" <=> ph_frame < key_frames[1]
          /\ phase = "Orange" <=> ph_frame >= key_frames[1]
    /\ (FbrDrawn /\ key_frames[2] <= key_frames[1]) =>
          /\ phase # "DESCENT"
          /\ phase \in FbrPhases

\* C27 witness: the head overlay, with the impact frame before the stance
\* frame, colours the impact frame itself in the pre-stance colour.
C27_Witness ==
    /\ scheme = "head"
    /\ key_frames[2] < key_frames[1]
    /\ ph_frame = key_frames[2]
    /\ phase = "Blue"

\* ================================= claims on the finalization, continued
\* The COM run went through its finalization and returned.
ComReturnedFromFinalize ==
    pipeline = "com" /\ pc = "returned" /\ final_output_path # NoPath

\* C28: process_video_with_com_overlay never returns the path of a file it
\* has removed: the intermediate file (final_output_path) is removed only
\* when the conversion answered another path, and then that other path,
\* the converted file, is returned; in every other case the intermediate
\* file is kept and returned.
C28_ReturnedFileNotRemoved ==
    ComReturnedFromFinalize =>
        /\ result \in files
        /\ final_output_path \notin files =>
              /\ ffmpeg = "ok"
              /\ result # final_output_path
              /\ result = output_path
        /\ final_output_path \in files => result = final_output_path

\* C28 witness: the run encoded out.avi, ffmpeg converted it to the hint
\* out.webm, out.avi was removed and out.webm returned.
C28_Witness ==
    /\ ComReturnedFromFinalize
    /\ ffmpeg = "ok"
    /\ final_output_path = <<"out">> \o EXT_AVI
    /\ final_output_path \notin files
    /\ result = <<"out">> \o EXT_WEBM
    /\ result \in files

\* ===================================================== claims on the trail
\* C29: for every trail length n with 2 <= n <= capacity and every segment
\* i in 0..n-2, the thickness computed for a COM trail segment is 1 or 2,
\* never the base thickness 3, and for a head trail segment it is 1, never
\* the base thickness 2: the weight (i+1)/n is below 1 and is truncated.
\* The same holds of the segments each rendered frame of a run got.
C29_ThicknessBelowBase ==
    /\ \A n \in 2..ComTrailLength : \A i \in 0..(n - 2) :
          com_thickness(i, n) \in {1, 2}
    /\ \A n \in 2..HeadTrailLength : \A i \in 0..(n - 2) :
          head_thickness(i, n) = 1
    /\ pipeline = "com" =>
          \A k \in 1..Len(last.segments) : last.segments[k] \in {1, 2}
    /\ pipeline = "head" =>
          \A k \in 1..Len(last.segments) : last.segments[k] = 1

\* C29 witness: the COM run renders a full trail of 15 points: its oldest
\* segment is drawn 1 thick, its newest 2 thick.
C29_Witness ==
    /\ pipeline = "com"
    /\ Len(trail) = ComTrailLength
    /\ Len(last.segments) = ComTrailLength - 1
    /\ last.segments[1] = 1
    /\ last.segments[ComTrailLength - 1] = 2

\* ============================================ claims on the hip-shoulder run
\* The last iteration of the hip-shoulder loop got through its drawing.
HipShoulderFrameDrawn ==
    /\ pipeline = "hip_shoulder"
    /\ last.pos >= 0
    /\ ~(pc = "raised" /\ raise_cause = "draw")

\* C30: in the hip-shoulder run the DOWNSWING label is drawn on frame i iff
\* downswing_start <= i <= downswing_end, whether or not the frame has
\* landmarks or an entry of the angle series; with downswing_start >
\* downswing_end no frame is labelled, and with both at their default 0
\* exactly frame 0 is.
C30_DownswingLabelByKeyFrames ==
    HipShoulderFrameDrawn =>
        /\ "downswing" \in last.layers <=>
              (downswing_start <= last.idx /\ last.idx <= downswing_end)
        /\ downswing_start > downswing_end => "downswing" \notin last.layers
        /\ (downswing_start = 0 /\ downswing_end = 0) =>
              ("downswing" \in last.layers <=> last.idx = 0)

\* C30 witness: frame 1 of a hip-shoulder run with downswing 0..1 has no
\* landmarks and lies beyond the angle series; it carries the label and
\* nothing else.
C30_Witness ==
    /\ pipeline = "hip_shoulder"
    /\ downswing_start = 0
    /\ downswing_end = 1
    /\ last.idx = 1
    /\ last.lm = 0
    /\ series_len <= 1
    /\ last.layers = {"downswing"}

====
